---- MODULE Spec2Model ----
(***************************************************************************)
(* A model of dnfdaemon.server.DnfDaemonBase                               *)
(* (python/dnfdaemon/server/__init__.py): the lazily created backend       *)
(* handle, the cached config options and repo selection, the pkg-spec      *)
(* marking methods, build_transaction / run_transaction and the idle       *)
(* watchdog.                                                               *)
(*                                                                         *)
(* Python values are modelled as follows.                                  *)
(*   None / an object     <<>> / <<x>>  (None, Some(x))                    *)
(*   str that is split    a sequence of one-character strings              *)
(*   dict                 a function; an ordered dict a sequence of pairs  *)
(*   object attributes    a function from attribute name to value          *)
(* Every handler of the D-Bus service runs to completion on the GLib main  *)
(* loop, so a handler is one action.  trace holds the TransactionEvent     *)
(* signals and the backend calls of the last handler, last its name,       *)
(* arguments and result.                                                   *)
(***************************************************************************)
EXTENDS Integers, Sequences, FiniteSets, TLC

VARIABLES
    _lock,              \* None or Some(sender)
    _base,              \* None or Some(handle)
    _can_quit,
    _is_working,
    _watchdog_count,
    _watchdog_disabled,
    _config_options,    \* dict option -> value
    _enabled_repos,     \* list of repo ids
    mainloop,           \* MAINLOOP: "running" or "quit"
    watchdog_on,        \* the GLib timeout source of _watchdog is installed
    created,            \* number of backend.DnfBase objects constructed
    trace,              \* signals and backend calls of the last handler
    last,               \* the last handler call and its result
    idle_ticks,         \* _watchdog calls that found the daemon idle
    option_log,         \* option -> the value of the latest set_option call
    repos_log,          \* None or Some(repo_ids of the latest set_enabled_repos call)
    running             \* None, or Some(the locals of the run_transaction that
                        \* is inside base.do_transaction)

vars == <<_lock, _base, _can_quit, _is_working, _watchdog_count,
          _watchdog_disabled, _config_options, _enabled_repos, mainloop,
          watchdog_on, created, trace, last, idle_ticks, option_log,
          repos_log, running>>

watchdog_vars == <<_lock, _can_quit, _is_working, _watchdog_count,
                   _watchdog_disabled, mainloop, watchdog_on, idle_ticks>>

session_vars == <<_config_options, _enabled_repos>>

log_vars == <<option_log, repos_log>>

-----------------------------------------------------------------------------
(* Bounds of the model *)

\* handles that may be constructed in one behaviour
MaxBases == 2

\* the longest transaction get_transaction is given
MaxTsi == 3

(* Program constants *)

_timeout_idle == 20
_timeout_locked == 600

-----------------------------------------------------------------------------
(* Python values *)

None == <<>>
Some(x) == <<x>>
The(o) == o[1]

\* d[k] = v on a dict / setattr(obj, k, v) on an object's attributes
Put(d, k, v) == [x \in (DOMAIN d) \cup {k} |-> IF x = k THEN v ELSE d[x]]

\* x in lst
InList(x, lst) == \E i \in 1..Len(lst) : lst[i] = x

IsPrefix(p, s) == Len(p) <= Len(s) /\ SubSeq(s, 1, Len(p)) = p

RECURSIVE str_split_from(_, _, _)
str_split_from(s, sep, cur) ==
    IF s = <<>> THEN <<cur>>
    ELSE IF IsPrefix(sep, s)
         THEN <<cur>> \o str_split_from(SubSeq(s, Len(sep) + 1, Len(s)), sep, <<>>)
         ELSE str_split_from(Tail(s), sep, Append(cur, Head(s)))

\* s.split(sep)
str_split(s, sep) == str_split_from(s, sep, <<>>)

\* json.loads of the option values the clients send
json_loads(text) ==
    CASE text = "0" -> 0
      [] text = "1" -> 1
      [] text = "2" -> 2

\* json.dumps of a bool
json_dumps_bool(b) == IF b THEN "true" ELSE "false"

\* json.dumps((rc, value)): the tuple becomes an array
json_dumps_pair(rc, value) == <<rc, value>>

-----------------------------------------------------------------------------
(* The backend: backend.DnfBase, a dnf.Base *)

RepoIds == {"fedora", "updates"}
\* repos the repo files enable
DefaultEnabled == {"fedora"}
\* attributes of a fresh dnf configuration and of a fresh repo
ConfDefaults == [o \in {"best", "gpgcheck"} |-> 0]
RepoDefaults == [o \in {"gpgcheck"} |-> 0]
\* pkg-specs that match an installed package
InstalledSpecs == {<<"p">>}

OpTypes == {"DOWNGRADE", "ERASE", "INSTALL", "REINSTALL", "UPGRADE"}

\* backend.DnfBase(self)
DnfBase(id) ==
    [id          |-> id,
     conf        |-> ConfDefaults,
     repos       |-> [r \in RepoIds |->
                        [enabled |-> r \in DefaultEnabled, opts |-> RepoDefaults]],
     sack        |-> None,
     goal        |-> {},
     transaction |-> None]

\* repos.iter_enabled()
iter_enabled(b) == {r \in DOMAIN b.repos : b.repos[r].enabled}

\* DnfBase.setup_base(): fill the sack from the enabled repos
setup_base(b) == [b EXCEPT !.sack = Some(iter_enabled(b))]

-----------------------------------------------------------------------------
(* DnfDaemonBase: the backend handle *)

\* mutant of ApplyCachedOptions: the cached options are not applied
ApplyCachedOptions_skipped(conf, options) == conf

\* the loop over self._config_options of _get_base
ApplyCachedOptions(conf, options) ==
    [o \in (DOMAIN conf) \cup (DOMAIN options) |->
        IF o \in DOMAIN options THEN options[o] ELSE conf[o]]

\* mutant of ApplyEnabledRepos: the else branch, repo.disable(), is missing
ApplyEnabledRepos_no_disable(repos, enabled_repos) ==
    [r \in DOMAIN repos |->
        [repos[r] EXCEPT !.enabled = @ \/ InList(r, enabled_repos)]]

\* the loop over self._base.repos.all() of _get_base
ApplyEnabledRepos(repos, enabled_repos) ==
    IF Len(enabled_repos) > 0
    THEN [r \in DOMAIN repos |->
            [repos[r] EXCEPT !.enabled = InList(r, enabled_repos)]]
    ELSE repos

\* _get_base(reset, load_sack): the fields _base and created after the call
_get_base(base, n, options, enabled_repos, reset, load_sack) ==
    IF base = None \/ reset
    THEN LET b0 == DnfBase(n + 1)
             b1 == [b0 EXCEPT !.conf = ApplyCachedOptions(b0.conf, options)]
             b2 == [b1 EXCEPT !.repos = ApplyEnabledRepos(b1.repos, enabled_repos)]
             b3 == IF load_sack THEN setup_base(b2) ELSE b2
         IN  [base |-> Some(b3), created |-> n + 1]
    ELSE [base |-> base, created |-> n]

\* mutant of base_property: the test "if not self._base" is missing
base_property_eager(base, n, options, enabled_repos) ==
    _get_base(base, n, options, enabled_repos, TRUE, TRUE)

\* the base property
base_property(base, n, options, enabled_repos) ==
    IF base = None
    THEN _get_base(base, n, options, enabled_repos, FALSE, TRUE)
    ELSE [base |-> base, created |-> n]

\* _reset_base()
_reset_base(base) == None

\* a handler may run: the main loop runs and is in no other handler, and a
\* handle it would construct is within the bound
CanRun(new_handle) ==
    /\ mainloop = "running"
    /\ running = None
    /\ new_handle => created < MaxBases

-----------------------------------------------------------------------------
(* Handlers *)

Init ==
    /\ _lock = None
    /\ _base = None
    /\ _can_quit = TRUE
    /\ _is_working = FALSE
    /\ _watchdog_count = 0
    /\ _watchdog_disabled = FALSE
    /\ _config_options = <<>>
    /\ _enabled_repos = <<>>
    /\ mainloop = "running"
    /\ watchdog_on = TRUE
    /\ created = 0
    /\ trace = <<>>
    /\ last = [op |-> "__init__"]
    /\ idle_ticks = 0
    /\ option_log = <<>>
    /\ repos_log = None
    /\ running = None

\* get_repositories(filter)
get_repositories ==
    /\ CanRun(_base = None)
    /\ \E filter \in {"", "enabled", "*"} :
        LET s == base_property(_base, created, _config_options, _enabled_repos)
            b == The(s.base)
        IN  /\ _base' = s.base
            /\ created' = s.created
            /\ trace' = <<>>
            /\ last' = [op |-> "get_repositories", filter |-> filter,
                        new |-> (_base = None),
                        ret |-> IF filter \in {"", "enabled"}
                                THEN iter_enabled(b) ELSE DOMAIN b.repos]
    /\ UNCHANGED <<running, watchdog_vars, session_vars, log_vars>>

\* the repo_ids lists the clients send
RepoLists == {<<>>, <<"fedora">>, <<"updates">>, <<"updates", "fedora">>,
              <<"nosuch">>}

\* set_enabled_repos(repo_ids): the fields _enabled_repos, _base and created
\* after the call
set_enabled_repos_body(base, n, options, repo_ids) ==
    LET enabled_repos == repo_ids
        closed == _reset_base(base)
        s == _get_base(closed, n, options, enabled_repos, TRUE, FALSE)
    IN  [enabled_repos |-> enabled_repos,
         base |-> Some(setup_base(The(s.base))), created |-> s.created]

\* set_enabled_repos(repo_ids)
set_enabled_repos ==
    /\ CanRun(TRUE)
    /\ \E repo_ids \in RepoLists :
        LET s == set_enabled_repos_body(_base, created, _config_options, repo_ids)
        IN  /\ _enabled_repos' = s.enabled_repos
            /\ repos_log' = Some(repo_ids)
            /\ _base' = s.base
            /\ created' = s.created
            /\ trace' = <<>>
            /\ last' = [op |-> "set_enabled_repos", repo_ids |-> repo_ids]
    /\ UNCHANGED <<running, watchdog_vars, _config_options, option_log>>

\* the options and the JSON values the clients send
OptionNames == {"best", "gpgcheck", "bogus"}
JsonValues == {"1", "2"}

\* mutant of SetRepoOption: the loop runs over repos.all()
SetRepoOption_all_repos(repos, option, value) ==
    [r \in DOMAIN repos |->
        IF option \in DOMAIN repos[r].opts
        THEN [repos[r] EXCEPT !.opts = Put(@, option, value)]
        ELSE repos[r]]

\* the loop over self.base.repos.iter_enabled() of set_option
SetRepoOption(repos, option, value) ==
    [r \in DOMAIN repos |->
        IF repos[r].enabled /\ option \in DOMAIN repos[r].opts
        THEN [repos[r] EXCEPT !.opts = Put(@, option, value)]
        ELSE repos[r]]

\* set_option(option, value): the fields _config_options, _base and created
\* after the call, the value returned, and handle, the value of self.base
\* when the call tests hasattr
set_option_body(base, n, options, enabled_repos, option, text) ==
    LET value == json_loads(text)
        cached == Put(options, option, value)
        s == base_property(base, n, cached, enabled_repos)
        b == The(s.base)
    IN  IF option \in DOMAIN b.conf
        THEN [options |-> cached,
              handle  |-> s.base,
              base    |-> Some([b EXCEPT !.conf = Put(@, option, value),
                                         !.repos = SetRepoOption(@, option, value)]),
              created |-> s.created,
              ret     |-> TRUE]
        ELSE [options |-> cached, handle |-> s.base, base |-> s.base,
              created |-> s.created, ret |-> FALSE]

\* set_option(option, value)
set_option ==
    /\ CanRun(_base = None)
    /\ \E option \in OptionNames, text \in JsonValues :
        LET s == set_option_body(_base, created, _config_options, _enabled_repos,
                                 option, text)
        IN  /\ _config_options' = s.options
            /\ _base' = s.base
            /\ created' = s.created
            /\ option_log' = Put(option_log, option, json_loads(text))
            /\ trace' = <<>>
            /\ last' = [op |-> "set_option", option |-> option, value |-> text,
                        ret |-> s.ret, handle |-> s.handle]
    /\ UNCHANGED <<running, watchdog_vars, _enabled_repos, repos_log>>

-----------------------------------------------------------------------------
(* Transactions *)

Ev(name) == [kind |-> "event", name |-> name, arg |-> <<>>]
Call(name, arg) == [kind |-> "call", name |-> name, arg |-> arg]

\* a package of the sack
Pkg(i, role) == [name |-> i, repo |-> role, size |-> 1]

\* a dnf.transaction.TransactionItem
Tsi(i, t) ==
    [op_type   |-> t,
     installed |-> IF t = "ERASE" THEN None ELSE Some(Pkg(i, "updates")),
     erased    |-> IF t = "INSTALL" THEN None ELSE Some(Pkg(i, "@System")),
     obsoleted |-> <<>>]

\* the transactions a resolve may produce
Transactions ==
    {<<>>,
     <<Tsi(1, "ERASE")>>,
     <<Tsi(1, "UPGRADE"), Tsi(2, "ERASE"), Tsi(3, "INSTALL")>>}

\* the values of a DepsolveError
DepsolveValues == {<<"a", ".", " ", "b">>}

\* what dnf.Base.resolve(allow_erasing=True) may do with a goal
ResolveOutcomes(goal) ==
    IF goal = {}
    THEN {[kind |-> "ok", tx |-> <<>>, value |-> <<>>]}
    ELSE {[kind |-> "ok", tx |-> tx, value |-> <<>>] : tx \in Transactions}
         \cup {[kind |-> "DepsolveError", tx |-> <<>>, value |-> v] :
                 v \in DepsolveValues}

\* _get_id(pkg)
_get_id(pkg) == <<pkg.name, pkg.repo>>

\* _active_pkg(tsi)
_active_pkg(tsi) ==
    IF tsi.op_type = "ERASE" THEN The(tsi.erased) ELSE The(tsi.installed)

\* the elements _get_transaction builds for one action
RECURSIVE tx_sublist(_)
tx_sublist(pkglist) ==
    IF pkglist = <<>> THEN <<>>
    ELSE LET tsi == Head(pkglist)
             po == _active_pkg(tsi)
             alist == [k \in 1..Len(tsi.obsoleted) |-> _get_id(tsi.obsoleted[k])]
         IN  << <<_get_id(po), po.size, alist>> >> \o tx_sublist(Tail(pkglist))

\* mutant of ActionOrder: the order of the first loop, the one that fills
\* tx_list
ActionOrder_tx_list_order ==
    << <<"downgrade", "DOWNGRADE">>, <<"remove", "ERASE">>,
       <<"install", "INSTALL">>, <<"reinstall", "REINSTALL">>,
       <<"update", "UPGRADE">> >>

\* the action tree of _get_transaction, in the order of its last loop
ActionOrder ==
    << <<"install", "INSTALL">>, <<"update", "UPGRADE">>, <<"remove", "ERASE">>,
       <<"reinstall", "REINSTALL">>, <<"downgrade", "DOWNGRADE">> >>

RECURSIVE tx_tree(_, _)
tx_tree(items, k) ==
    IF k > Len(ActionOrder) THEN <<>>
    ELSE LET pkglist == SelectSeq(items, LAMBDA tsi : tsi.op_type = ActionOrder[k][2])
         IN  (IF pkglist # <<>>
              THEN << <<ActionOrder[k][1], tx_sublist(pkglist)>> >>
              ELSE <<>>) \o tx_tree(items, k + 1)

\* _get_transaction()
_get_transaction(b) ==
    IF b.transaction # None /\ The(b.transaction) # <<>>
    THEN tx_tree(The(b.transaction), 1)
    ELSE <<>>

\* _resolve_transaction(): the handle after the call, rc and output
_resolve_transaction(b, res) ==
    IF res.kind = "DepsolveError"
    THEN [base |-> b, rc |-> FALSE, output |-> str_split(res.value, <<".", " ">>)]
    ELSE [base |-> [b EXCEPT !.transaction = Some(res.tx)],
          rc |-> Len(res.tx) > 0, output |-> <<>>]

\* mutant of _build_transaction: the output of the resolve is returned on
\* success too
_build_transaction_output_only(b, res) ==
    LET r == _resolve_transaction(b, res)
    IN  [base |-> r.base, rc |-> r.rc, value |-> r.output]

\* _build_transaction(): the handle after the call and the pair returned
_build_transaction(b, res) ==
    LET r == _resolve_transaction(b, res)
    IN  IF r.rc
        THEN [base |-> r.base, rc |-> r.rc, value |-> _get_transaction(r.base)]
        ELSE [base |-> r.base, rc |-> r.rc, value |-> r.output]

\* build_transaction(): the handle after the call, the value returned and the
\* signals and backend calls made
build_transaction_body(b, res) ==
    LET r == _build_transaction(b, res)
    IN  [base  |-> r.base,
         value |-> json_dumps_pair(json_dumps_bool(r.rc), r.value),
         trace |-> <<Ev("start-build"), Call("resolve", <<>>), Ev("end-build")>>]

\* build_transaction()
build_transaction ==
    /\ CanRun(_base = None)
    /\ LET s == base_property(_base, created, _config_options, _enabled_repos)
       IN  \E res \in ResolveOutcomes(The(s.base).goal) :
            LET r == build_transaction_body(The(s.base), res)
            IN  /\ _base' = Some(r.base)
                /\ created' = s.created
                /\ trace' = r.trace
                /\ last' = [op |-> "build_transaction", resolve |-> res,
                            ret |-> r.value]
    /\ UNCHANGED <<running, watchdog_vars, session_vars, log_vars>>

\* clear_transaction(): base.reset(goal=True)
clear_transaction ==
    /\ CanRun(_base = None)
    /\ LET s == base_property(_base, created, _config_options, _enabled_repos)
       IN  /\ _base' = Some([The(s.base) EXCEPT !.goal = {}, !.transaction = None])
           /\ created' = s.created
    /\ trace' = <<>>
    /\ last' = [op |-> "clear_transaction"]
    /\ UNCHANGED <<running, watchdog_vars, session_vars, log_vars>>

\* get_transaction()
get_transaction ==
    /\ CanRun(_base = None)
    /\ LET s == base_property(_base, created, _config_options, _enabled_repos)
           trans == _get_transaction(The(s.base))
           rc == trans # <<>>
       IN  /\ _base' = s.base
           /\ created' = s.created
           /\ last' = [op |-> "get_transaction",
                       transaction |-> The(s.base).transaction,
                       ret |-> json_dumps_pair(json_dumps_bool(rc), trans)]
    /\ trace' = <<>>
    /\ UNCHANGED <<running, watchdog_vars, session_vars, log_vars>>

\* the transactions of at most MaxTsi items a handle may hold: every order of
\* the operation types
TsiLists ==
    UNION {{[k \in 1..n |-> Tsi(k, ops[k])] : ops \in [1..n -> OpTypes]} :
             n \in 0..MaxTsi}

\* the daemon with no handle, a handle that was never resolved, or a handle
\* that holds a resolved transaction
InitGetTransaction ==
    /\ _lock = None
    /\ _base \in {None, Some(setup_base(DnfBase(1)))}
                 \cup {Some([setup_base(DnfBase(1)) EXCEPT !.transaction = Some(tx)]) :
                         tx \in TsiLists}
    /\ _can_quit = TRUE
    /\ _is_working = FALSE
    /\ _watchdog_count = 0
    /\ _watchdog_disabled = FALSE
    /\ _config_options = <<>>
    /\ _enabled_repos = <<>>
    /\ mainloop = "running"
    /\ watchdog_on = TRUE
    /\ created = IF _base = None THEN 0 ELSE 1
    /\ trace = <<>>
    /\ last = [op |-> "__init__"]
    /\ idle_ticks = 0
    /\ option_log = <<>>
    /\ repos_log = None
    /\ running = None

-----------------------------------------------------------------------------
(* Marking packages from pkg-specs *)

\* the cmds strings the clients send
CmdsInputs == {<<"p">>, <<"x">>, <<"p", " ", "x">>, <<"x", " ", "p">>}

\* the loop "for cmd in cmds.split(' '): self.base.<method>(cmd)" inside the
\* try of remove, update, reinstall and downgrade: dnf raises
\* PackagesNotInstalledError for a spec that matches no installed package,
\* which ends the loop
RECURSIVE mark_loop(_, _, _)
mark_loop(method, specs, goal) ==
    IF specs = <<>> THEN [goal |-> goal, trace |-> <<>>]
    ELSE IF Head(specs) \notin InstalledSpecs
         THEN [goal |-> goal, trace |-> <<Call(method, Head(specs))>>]
         ELSE LET r == mark_loop(method, Tail(specs), goal \cup {<<method, Head(specs)>>})
              IN  [goal |-> r.goal, trace |-> <<Call(method, Head(specs))>> \o r.trace]

\* the body shared by remove, update, reinstall and downgrade
mark_cmds(method, cmds, b, res) ==
    LET m == mark_loop(method, str_split(cmds, <<" ">>), b.goal)
        r == build_transaction_body([b EXCEPT !.goal = m.goal], res)
    IN  [base |-> r.base, value |-> r.value, trace |-> m.trace \o r.trace]

MarkHandler(op, method) ==
    /\ CanRun(_base = None)
    /\ \E cmds \in CmdsInputs :
        LET s == base_property(_base, created, _config_options, _enabled_repos)
            b == The(s.base)
            goal == mark_loop(method, str_split(cmds, <<" ">>), b.goal).goal
        IN  \E res \in ResolveOutcomes(goal) :
            LET r == mark_cmds(method, cmds, b, res)
            IN
            /\ _base' = Some(r.base)
            /\ created' = s.created
            /\ trace' = r.trace
            /\ last' = [op |-> op, method |-> method, cmds |-> cmds,
                        resolve |-> res, ret |-> r.value]
    /\ UNCHANGED <<running, watchdog_vars, session_vars, log_vars>>

\* remove(cmds)
remove == MarkHandler("remove", "remove")
\* update(cmds)
update == MarkHandler("update", "upgrade")
\* reinstall(cmds)
reinstall == MarkHandler("reinstall", "reinstall")
\* downgrade(cmds)
downgrade == MarkHandler("downgrade", "downgrade")

-----------------------------------------------------------------------------
(* run_transaction *)

\* _get_packages_to_download(): transaction is the iterable self.base.transaction
_get_packages_to_download(transaction) ==
    LET with_installed == SelectSeq(transaction, LAMBDA tsi : tsi.installed # None)
    IN  [k \in 1..Len(with_installed) |-> The(with_installed[k].installed)]

\* a backend call that returns
NoDownload == [kind |-> "ok", errmap |-> None, str |-> ""]
NoTransaction == [kind |-> "ok", str |-> ""]

\* what base.download_packages may do: return, raise a DownloadError whose
\* errmap is a dict (an ordered list of file name and messages) or is not one
\* (None here, and str is str(e)), or raise another dnf Error
ErrMaps ==
    {Some(<<>>),
     Some(<< <<"f1", <<>>>> >>),
     Some(<< <<"f1", <<"m1", "m2">>>>, <<"f2", <<"m3">>>> >>)}

DownloadOutcomes ==
    {NoDownload}
    \cup {[kind |-> "DownloadError", errmap |-> m, str |-> ""] : m \in ErrMaps}
    \cup {[kind |-> k, errmap |-> None, str |-> t] :
            k \in {"DownloadError", "Error"}, t \in {"", "failed"}}

\* what base._sig_check_pkg(po) and base._get_key_for_package(po) may do for
\* one package: result 0, 1 or another value with its errmsg, and for result
\* 1 whether the key import raises a dnf Error
SigResults ==
    {[result |-> 0, errmsg |-> "", key |-> "ok"],
     [result |-> 1, errmsg |-> "", key |-> "ok"],
     [result |-> 1, errmsg |-> "", key |-> "no key"],
     [result |-> 2, errmsg |-> "bad signature", key |-> "ok"]}

\* what base.do_transaction may do: return or raise a dnf Error
TransactionOutcomes ==
    {NoTransaction}
    \cup {[kind |-> "Error", str |-> t] : t \in {"", "rpm failed"}}

\* _check_gpg_signatures(pkgs): None when it returns 0, Some(message) when it
\* raises GPGError(message); sigs[k] is what the backend answers for pkgs[k]
RECURSIVE _check_gpg_signatures(_, _, _)
_check_gpg_signatures(pkgs, sigs, k) ==
    IF k > Len(pkgs) THEN None
    ELSE IF sigs[k].result = 0 THEN _check_gpg_signatures(pkgs, sigs, k + 1)
    ELSE IF sigs[k].result = 1
         THEN IF sigs[k].key = "ok"
              THEN _check_gpg_signatures(pkgs, sigs, k + 1)
              ELSE Some(sigs[k].key)
    ELSE Some(sigs[k].errmsg)

\* the messages run_transaction builds from the errmap dict of a DownloadError
RECURSIVE errmap_msgs(_)
errmap_msgs(errmap) ==
    IF errmap = <<>> THEN <<>>
    ELSE LET fn == Head(errmap)[1]
             msgs == Head(errmap)[2]
         IN  [k \in 1..Len(msgs) |-> <<fn, " : ", msgs[k]>>] \o errmap_msgs(Tail(errmap))

\* mutant of download_error: the clause "except Error" comes first
download_error_as_other(dl) ==
    [rc |-> 2, raised |-> "Error", msgs |-> <<dl.str>>]

\* the except clauses of run_transaction
download_error(dl) ==
    [rc |-> 4, raised |-> "DownloadError",
     msgs |-> IF dl.errmap # None THEN errmap_msgs(The(dl.errmap)) ELSE <<dl.str>>]
gpg_error(msg) == [rc |-> 1, raised |-> "GPGError", msgs |-> <<msg>>]
other_error(str) == [rc |-> 2, raised |-> "Error", msgs |-> <<str>>]

\* mutant of do_transaction: 'run-transaction' is signalled after the call
do_transaction_signal_late(dt, before) ==
    LET t == before \o <<Call("_can_quit", FALSE), Call("do_transaction", <<>>),
                         Ev("run-transaction")>>
    IN  IF dt.kind = "ok"
        THEN [rc |-> 0, raised |-> "none", msgs |-> <<>>, trace |-> t]
        ELSE [rc |-> 2, raised |-> "Error", msgs |-> <<dt.str>>, trace |-> t]

\* the last part of the try block of run_transaction
do_transaction(dt, before) ==
    LET t == before \o <<Ev("run-transaction"), Call("_can_quit", FALSE),
                         Call("do_transaction", <<>>)>>
    IN  IF dt.kind = "ok"
        THEN [rc |-> 0, raised |-> "none", msgs |-> <<>>, trace |-> t]
        ELSE other_error(dt.str) @@ [trace |-> t]

\* the try block of run_transaction and its except clauses: rc, msgs, the
\* exception caught and the signals and backend calls made
run_transaction_try(to_dnl, dl, sigs, dt) ==
    IF to_dnl # <<>>
    THEN LET t1 == <<Ev("pkg-to-download"), Ev("download"),
                     Call("download_packages", Len(to_dnl))>>
             t2 == t1 \o <<Ev("signature-check"),
                           Call("_check_gpg_signatures", Len(to_dnl))>>
             gpg == _check_gpg_signatures(to_dnl, sigs, 1)
         IN  IF dl.kind = "DownloadError" THEN download_error(dl) @@ [trace |-> t1]
             ELSE IF dl.kind = "Error" THEN other_error(dl.str) @@ [trace |-> t1]
             ELSE IF gpg # None THEN gpg_error(The(gpg)) @@ [trace |-> t2]
             ELSE do_transaction(dt, t2)
    ELSE do_transaction(dt, <<>>)

\* the outcomes of the backend calls run_transaction makes: an outcome is
\* drawn only for a call that is reached
DownloadDrawn(to_dnl) ==
    IF to_dnl # <<>> THEN DownloadOutcomes ELSE {NoDownload}
SigsDrawn(to_dnl, dl) ==
    IF dl.kind = "ok"
    THEN [1..Len(to_dnl) -> SigResults]
    ELSE {[k \in 1..Len(to_dnl) |-> CHOOSE r \in SigResults : r.result = 0]}
TransactionDrawn(to_dnl, dl, sigs) ==
    IF dl.kind = "ok" /\ _check_gpg_signatures(to_dnl, sigs, 1) = None
    THEN TransactionOutcomes ELSE {NoTransaction}

\* run_transaction() up to the call of base.do_transaction, or to its return
\* when an exception is raised before that call
run_transaction ==
    /\ CanRun(_base = None)
    /\ LET s == base_property(_base, created, _config_options, _enabled_repos)
           b == The(s.base)
       IN  /\ created' = s.created
           /\ IF b.transaction = None
              THEN \* "for tsi in self.base.transaction" raises TypeError
                   /\ _base' = s.base
                   /\ trace' = <<Ev("start-run")>>
                   /\ last' = [op |-> "run_transaction", raised |-> "TypeError"]
                   /\ UNCHANGED <<_can_quit, running>>
              ELSE LET to_dnl == _get_packages_to_download(The(b.transaction))
                   IN  \E dl \in DownloadDrawn(to_dnl) :
                       \E sigs \in SigsDrawn(to_dnl, dl) :
                         IF TransactionDrawn(to_dnl, dl, sigs) = {NoTransaction}
                         THEN LET r == run_transaction_try(to_dnl, dl, sigs,
                                                           NoTransaction)
                              IN  /\ _can_quit' = TRUE
                                  /\ _base' = _reset_base(s.base)
                                  /\ trace' = <<Ev("start-run")>> \o r.trace
                                                \o <<Ev("end-run")>>
                                  /\ last' = [op |-> "run_transaction",
                                              raised |-> r.raised,
                                              transaction |-> The(b.transaction),
                                              download |-> dl,
                                              sigs |-> sigs,
                                              do_transaction |-> NoTransaction,
                                              ret |-> json_dumps_pair(r.rc, r.msgs)]
                                  /\ UNCHANGED running
                         ELSE \* self._can_quit = False; base.do_transaction is
                              \* entered
                              /\ _can_quit' = FALSE
                              /\ _base' = s.base
                              /\ running' = Some([transaction |-> The(b.transaction),
                                                  to_dnl |-> to_dnl,
                                                  download |-> dl,
                                                  sigs |-> sigs])
                              /\ UNCHANGED <<trace, last>>
    /\ UNCHANGED <<_lock, _is_working, _watchdog_count, _watchdog_disabled,
                   mainloop, watchdog_on, idle_ticks, session_vars, log_vars>>

\* run_transaction() from the return of base.do_transaction to its own
run_transaction_return ==
    /\ running # None
    /\ LET l == The(running)
       IN  \E dt \in TransactionOutcomes :
             LET r == run_transaction_try(l.to_dnl, l.download, l.sigs, dt)
             IN  /\ _can_quit' = TRUE
                 /\ _base' = _reset_base(_base)
                 /\ trace' = <<Ev("start-run")>> \o r.trace \o <<Ev("end-run")>>
                 /\ last' = [op |-> "run_transaction",
                             raised |-> r.raised,
                             transaction |-> l.transaction,
                             download |-> l.download,
                             sigs |-> l.sigs,
                             do_transaction |-> dt,
                             ret |-> json_dumps_pair(r.rc, r.msgs)]
    /\ running' = None
    /\ UNCHANGED <<_lock, _is_working, _watchdog_count, _watchdog_disabled,
                   mainloop, watchdog_on, idle_ticks, created, session_vars,
                   log_vars>>

-----------------------------------------------------------------------------
(* The watchdog *)

\* mutant of _watchdog: the test "if self._can_quit" is missing
_watchdog_ignores_can_quit ==
    /\ mainloop = "running"
    /\ watchdog_on
    /\ IF _watchdog_disabled \/ _is_working
       THEN UNCHANGED <<_base, _watchdog_count, mainloop, watchdog_on, idle_ticks>>
       ELSE LET timeout == IF _lock = None THEN _timeout_idle ELSE _timeout_locked
                terminate == _watchdog_count > timeout
            IN  /\ idle_ticks' = idle_ticks + 1
                /\ IF terminate
                   THEN /\ watchdog_on' = FALSE
                        /\ _base' = _reset_base(_base)
                        /\ mainloop' = "quit"
                        /\ UNCHANGED _watchdog_count
                   ELSE /\ _watchdog_count' = _watchdog_count + 1
                        /\ UNCHANGED <<_base, mainloop, watchdog_on>>
    /\ UNCHANGED <<_lock, _can_quit, _is_working, _watchdog_disabled,
                   session_vars, created, trace, last, log_vars, running>>

\* _watchdog(): the GLib timeout source stays installed while it returns True.
\* The source may fire while run_transaction is inside base.do_transaction:
\* the main loop dispatches it between handlers, and inside one only if the
\* backend call iterates the loop, so the schedules here include the daemon's.
_watchdog ==
    /\ mainloop = "running"
    /\ watchdog_on
    /\ IF _watchdog_disabled \/ _is_working
       THEN UNCHANGED <<_base, _watchdog_count, mainloop, watchdog_on, idle_ticks>>
       ELSE LET timeout == IF _lock = None THEN _timeout_idle ELSE _timeout_locked
                terminate == _watchdog_count > timeout
            IN  /\ idle_ticks' = idle_ticks + 1
                /\ IF terminate
                   THEN /\ watchdog_on' = FALSE
                        /\ IF _can_quit
                           THEN _base' = _reset_base(_base) /\ mainloop' = "quit"
                           ELSE UNCHANGED <<_base, mainloop>>
                        /\ UNCHANGED _watchdog_count
                   ELSE /\ _watchdog_count' = _watchdog_count + 1
                        /\ UNCHANGED <<_base, mainloop, watchdog_on>>
    /\ UNCHANGED <<_lock, _can_quit, _is_working, _watchdog_disabled,
                   session_vars, created, trace, last, log_vars, running>>

\* the senders that may hold the lock
Senders == {":1.42"}

\* the daemon with its watchdog set up (_setup_watchdog), in any state of the
\* fields the D-Bus services and run_transaction write
InitWatchdog ==
    /\ _lock \in {None} \cup {Some(sender) : sender \in Senders}
    /\ _base \in {None, Some(setup_base(DnfBase(1)))}
    /\ _can_quit \in BOOLEAN
    /\ _is_working \in BOOLEAN
    /\ _watchdog_count = 0
    /\ _watchdog_disabled \in BOOLEAN
    /\ _config_options = <<>>
    /\ _enabled_repos = <<>>
    /\ mainloop = "running"
    /\ watchdog_on = TRUE
    /\ created = IF _base = None THEN 0 ELSE 1
    /\ trace = <<>>
    /\ last = [op |-> "__init__"]
    /\ idle_ticks = 0
    /\ option_log = <<>>
    /\ repos_log = None
    /\ running = None

\* the daemon with its watchdog set up and a handle that is absent or holds
\* a resolved transaction, in any state of the fields the D-Bus services
\* write
InitRunWatchdog ==
    /\ _lock \in {None} \cup {Some(sender) : sender \in Senders}
    /\ _base \in {None}
                 \cup {Some([setup_base(DnfBase(1)) EXCEPT !.transaction = Some(tx)]) :
                         tx \in Transactions}
    /\ _can_quit = TRUE
    /\ _is_working \in BOOLEAN
    /\ _watchdog_count = 0
    /\ _watchdog_disabled \in BOOLEAN
    /\ _config_options = <<>>
    /\ _enabled_repos = <<>>
    /\ mainloop = "running"
    /\ watchdog_on = TRUE
    /\ created = IF _base = None THEN 0 ELSE 1
    /\ trace = <<>>
    /\ last = [op |-> "__init__"]
    /\ idle_ticks = 0
    /\ option_log = <<>>
    /\ repos_log = None
    /\ running = None

-----------------------------------------------------------------------------
(* Specifications *)

\* the handlers of the backend handle, the config options and the repos
NextSession ==
    \/ get_repositories
    \/ set_enabled_repos
    \/ set_option
    \/ build_transaction
    \/ run_transaction
    \/ run_transaction_return

\* the handlers of the transaction
NextTransaction ==
    \/ build_transaction
    \/ clear_transaction
    \/ remove
    \/ update
    \/ reinstall
    \/ downgrade
    \/ run_transaction
    \/ run_transaction_return

\* Spec takes every handler and the watchdog.  SpecSession and
\* SpecTransaction take the handlers of one concern each (both create and
\* close handles), SpecWatchdog the watchdog alone over every value of the
\* fields it reads; these are the ones small enough to be explored in full.
Next == NextSession \/ NextTransaction \/ get_transaction \/ _watchdog

Spec == Init /\ [][Next]_vars

SpecSession == Init /\ [][NextSession]_vars

SpecTransaction == Init /\ [][NextTransaction]_vars

SpecWatchdog == InitWatchdog /\ [][_watchdog]_vars

\* run_transaction under the watchdog
NextRunWatchdog ==
    \/ run_transaction
    \/ run_transaction_return
    \/ _watchdog

SpecRunWatchdog == InitRunWatchdog /\ [][NextRunWatchdog]_vars

\* get_transaction over every transaction of at most MaxTsi items
SpecGetTransaction == InitGetTransaction /\ [][get_transaction]_vars

-----------------------------------------------------------------------------
(* The watchdog closes an idle daemon *)

\* the daemon has been idle since the watchdog was set up
Idle == ~_is_working /\ ~_watchdog_disabled /\ _can_quit

\* the timeout of the current lock state
Timeout == IF _lock = None THEN _timeout_idle ELSE _timeout_locked

\* C1: an idle daemon is closed by the watchdog after the timeout of its lock
\* state: once the main loop has been quit, the watchdog has ticked
\* _timeout_idle (20) times when unlocked and _timeout_locked (600) times when
\* locked, counting from _watchdog_count = 0 (the tick that follows the last
\* counted one is allowed for: at most timeout + 1 calls).
C1_ClosedAfterTimeout ==
    (Idle /\ mainloop = "quit") => idle_ticks <= Timeout + 1

\* the code quits on the call that finds _watchdog_count > timeout: the 22nd
\* call when unlocked and the 602nd when locked
C1_ClosedTwoTicksLate ==
    (Idle /\ mainloop = "quit") =>
        /\ _watchdog_count = Timeout + 1
        /\ idle_ticks = Timeout + 2
C1_Closed == Idle /\ mainloop = "quit" /\ _lock = None

-----------------------------------------------------------------------------
(* The backend handle is created lazily *)

\* the handlers that read the base property and leave the handle in place
AccessOps == {"get_repositories", "set_option", "build_transaction"}

-----------------------------------------------------------------------------
(* Repositories *)

\* the repositories of the current handle that are enabled
EnabledNow == {r \in RepoIds : The(_base).repos[r].enabled}

\* the ids of repo_ids
Listed(repo_ids) == {r \in RepoIds : InList(r, repo_ids)}

\* C5: after set_enabled_repos(repo_ids), for every list repo_ids including
\* the empty one, a repository of the current handle is enabled if and only
\* if its id is in repo_ids.
C5_EnabledIffListed ==
    last.op = "set_enabled_repos" =>
        /\ _base # None
        /\ EnabledNow = Listed(last.repo_ids)

\* what the code does: the selection is applied for a non-empty list only,
\* and the sack is loaded from the repos that are enabled
C5_NonEmptyEnabledIffListed ==
    last.op = "set_enabled_repos" =>
        /\ _base # None
        /\ last.repo_ids # <<>> => EnabledNow = Listed(last.repo_ids)
        /\ last.repo_ids = <<>> => EnabledNow = DefaultEnabled
        /\ The(_base).sack = Some(EnabledNow)

\* C7: after set_enabled_repos(L) with a non-empty L, every handle created
\* later has a repository enabled if and only if its id is in L, until the
\* next set_enabled_repos call.
C7_SelectionSurvives ==
    [][(/\ created' # created
        /\ _base' # None
        /\ repos_log' # None
        /\ The(repos_log') # <<>>) =>
            {r \in RepoIds : The(_base').repos[r].enabled} = Listed(The(repos_log'))]_vars

\* a handle created lazily after run_transaction closed the one that
\* set_enabled_repos(["updates"]) made
C7_LazyHandleKeepsSelection ==
    /\ last.op = "get_repositories"
    /\ last.new
    /\ created = 2
    /\ repos_log = Some(<<"updates">>)
    /\ last.ret = {"updates"}

-----------------------------------------------------------------------------
(* Config options *)

\* C6: every newly created handle has, for each option ever passed to
\* set_option, its configuration attribute set to the value of the latest
\* set_option call for that option.
C6_OptionsSurvive ==
    [][(created' # created /\ _base' # None) =>
            \A o \in DOMAIN option_log' :
                /\ o \in DOMAIN The(_base').conf
                /\ The(_base').conf[o] = option_log'[o]]_vars

\* a handle created lazily, after the first one was closed, that has the
\* options set before, one of them no attribute of a fresh configuration
C6_LazyHandleHasOptions ==
    /\ last.op = "get_repositories"
    /\ last.new
    /\ created = 2
    /\ DOMAIN option_log = {"bogus", "best"}
    /\ The(_base).conf["bogus"] = 2
    /\ The(_base).conf["best"] = 1

\* C9: set_option(option, value) returns True if and only if the
\* configuration of the current handle has an attribute named option; when it
\* returns True the value is set on the configuration and on every enabled
\* repository that has the attribute, and no disabled repository changes;
\* when it returns False the configuration and the repositories are unchanged.
C9_SetOption ==
    last.op = "set_option" =>
        LET h == The(last.handle)
            b == The(_base)
            o == last.option
            v == json_loads(last.value)
        IN  /\ last.ret = (o \in DOMAIN h.conf)
            /\ last.ret =>
                /\ b.conf = Put(h.conf, o, v)
                /\ \A r \in RepoIds :
                    /\ (h.repos[r].enabled /\ o \in DOMAIN h.repos[r].opts) =>
                            b.repos[r] = [h.repos[r] EXCEPT !.opts = Put(@, o, v)]
                    /\ ~(h.repos[r].enabled /\ o \in DOMAIN h.repos[r].opts) =>
                            b.repos[r] = h.repos[r]
            /\ ~last.ret => b = h

\* set_option("gpgcheck", 2) returned True with an enabled repository, which
\* has the value, and a disabled one, which has not
C9_SetOnEnabledRepoOnly ==
    /\ last.op = "set_option"
    /\ last.ret
    /\ last.option = "gpgcheck"
    /\ last.value = "2"
    /\ The(_base).conf["gpgcheck"] = 2
    /\ \E r \in RepoIds : The(_base).repos[r].enabled /\ The(_base).repos[r].opts["gpgcheck"] = 2
    /\ \E r \in RepoIds : ~The(_base).repos[r].enabled /\ The(_base).repos[r].opts["gpgcheck"] = 0

-----------------------------------------------------------------------------
(* run_transaction *)

\* the positions in trace of a signal and of a backend call
Pos(name) ==
    {k \in 1..Len(trace) : trace[k].kind = "event" /\ trace[k].name = name}
CallPos(name) ==
    {k \in 1..Len(trace) : trace[k].kind = "call" /\ trace[k].name = name}

\* run_transaction has run to its return
Ran == last.op = "run_transaction" /\ last.raised # "TypeError"

\* the transaction has packages to download
HasDownloads == \E k \in 1..Len(last.transaction) : last.transaction[k].installed # None

\* what the backend calls of the last run_transaction did
DownloadRaised(kind) == HasDownloads /\ last.download.kind = kind
SigFails(sig) == sig.result # 0 /\ ~(sig.result = 1 /\ sig.key = "ok")
GpgRaised ==
    /\ HasDownloads
    /\ last.download.kind = "ok"
    /\ \E k \in 1..Len(last.sigs) : SigFails(last.sigs[k])
TransactionRaised ==
    /\ HasDownloads => (last.download.kind = "ok" /\ ~GpgRaised)
    /\ last.do_transaction.kind = "Error"

\* the error raised carried a message: a file message in the errmap dict of
\* a DownloadError, a non-empty str(e) otherwise
CarriedMessage ==
    \/ /\ DownloadRaised("DownloadError")
       /\ IF last.download.errmap # None
          THEN \E k \in 1..Len(The(last.download.errmap)) :
                  The(last.download.errmap)[k][2] # <<>>
          ELSE last.download.str # ""
    \/ DownloadRaised("Error") /\ last.download.str # ""
    \/ GpgRaised
    \/ TransactionRaised /\ last.do_transaction.str # ""

\* C3: run_transaction returns rc 0 with an empty message list when download,
\* signature check and do_transaction all succeed, rc 4 when the download
\* raises DownloadError, rc 1 when the signature check raises GPGError, rc 2
\* when another dnf Error is raised; and for a non-zero rc the message list
\* is non-empty whenever the error carried a message.
C3_ResultCodes ==
    Ran =>
        LET rc == last.ret[1]
            msgs == last.ret[2]
            failed == \/ DownloadRaised("DownloadError") \/ DownloadRaised("Error")
                      \/ GpgRaised \/ TransactionRaised
        IN  /\ ~failed => (rc = 0 /\ msgs = <<>>)
            /\ DownloadRaised("DownloadError") => rc = 4
            /\ GpgRaised => rc = 1
            /\ (DownloadRaised("Error") \/ TransactionRaised) => rc = 2
            /\ (rc # 0 /\ CarriedMessage) => msgs # <<>>

\* a DownloadError with the file messages of its errmap
C3_DownloadErrorMessages ==
    /\ Ran
    /\ last.ret = <<4, << <<"f1", " : ", "m1">>, <<"f1", " : ", "m2">>,
                        <<"f2", " : ", "m3">> >> >>

\* C4: 'start-run' is the first and 'end-run' the last signal of
\* run_transaction on every outcome; 'pkg-to-download', 'download' and
\* 'signature-check' are emitted in that order and only when the transaction
\* has packages to download; 'run-transaction' is emitted after them, only if
\* download and signature check raised no error, and before do_transaction is
\* called.
C4_EventOrder ==
    Ran =>
        /\ Pos("start-run") = {1}
        /\ Pos("end-run") = {Len(trace)}
        /\ \A name \in {"pkg-to-download", "download", "signature-check"} :
            /\ Cardinality(Pos(name)) <= 1
            /\ Pos(name) # {} => HasDownloads
        /\ HasDownloads => (Pos("pkg-to-download") # {} /\ Pos("download") # {})
        /\ Pos("signature-check") # {} => Pos("download") # {}
        /\ \A a \in Pos("pkg-to-download"), b \in Pos("download") : a < b
        /\ \A b \in Pos("download"), c \in Pos("signature-check") : b < c
        /\ Cardinality(Pos("run-transaction")) <= 1
        /\ \A k \in Pos("run-transaction") :
            /\ \A name \in {"pkg-to-download", "download", "signature-check"} :
                \A j \in Pos(name) : j < k
            /\ ~DownloadRaised("DownloadError")
            /\ ~DownloadRaised("Error")
            /\ ~GpgRaised
        /\ \A c \in CallPos("do_transaction") :
            \E k \in Pos("run-transaction") : k < c

\* a run with packages to download in which do_transaction was called
C4_FullRun ==
    /\ Ran
    /\ HasDownloads
    /\ Pos("signature-check") # {}
    /\ CallPos("do_transaction") # {}
    /\ last.ret = <<0, <<>>>>

-----------------------------------------------------------------------------
(* Marking packages and build_transaction *)

MarkOps == {"remove", "update", "reinstall", "downgrade"}

\* C8: in remove, update, reinstall and downgrade a pkg-spec naming a package
\* that is not installed is ignored: every other spec of cmds, before or after
\* it, is marked on the backend, and build_transaction is called exactly once,
\* after the marking.
C8_NotInstalledIgnored ==
    last.op \in MarkOps =>
        LET specs == str_split(last.cmds, <<" ">>)
        IN  /\ \A k \in 1..Len(specs) :
                specs[k] \in InstalledSpecs => <<last.method, specs[k]>> \in The(_base).goal
            /\ Cardinality(Pos("start-build")) = 1
            /\ \A c \in CallPos(last.method), k \in Pos("start-build") : c < k

\* what the code does: the specs before the first one that is not installed
\* are marked, and build_transaction is called exactly once, after the marking
C8_MarkedUpToFirstFailure ==
    last.op \in MarkOps =>
        LET specs == str_split(last.cmds, <<" ">>)
        IN  /\ \A k \in 1..Len(specs) :
                (\A j \in 1..k : specs[j] \in InstalledSpecs) =>
                    <<last.method, specs[k]>> \in The(_base).goal
            /\ Cardinality(Pos("start-build")) = 1
            /\ \A c \in CallPos(last.method), k \in Pos("start-build") : c < k

RECURSIVE str_join(_, _)
\* sep.join(parts)
str_join(sep, parts) ==
    IF parts = <<>> THEN <<>>
    ELSE IF Len(parts) = 1 THEN parts[1]
    ELSE parts[1] \o sep \o str_join(sep, Tail(parts))

RECURSIVE tree_size(_)
\* the number of elements of an action tree
tree_size(tree) ==
    IF tree = <<>> THEN 0 ELSE Len(Head(tree)[2]) + tree_size(Tail(tree))

\* C10: build_transaction emits 'start-build' before resolving and
\* 'end-build' after, both when resolve succeeds and when it raises
\* DepsolveError; every 'start-build' is followed by exactly one 'end-build'
\* before the call returns; it returns (rc, transaction list) when resolve
\* returned a truthy rc and (False, error messages) on a DepsolveError.
C10_BuildBracketed ==
    last.op \in MarkOps \cup {"build_transaction"} =>
        LET n == Len(trace)
            res == last.resolve
        IN  /\ n >= 3
            /\ Pos("start-build") = {n - 2}
            /\ CallPos("resolve") = {n - 1}
            /\ Pos("end-build") = {n}
            /\ (res.kind = "ok" /\ res.tx # <<>>) =>
                /\ last.ret[1] = "true"
                /\ last.ret[2] = _get_transaction(The(_base))
                /\ tree_size(last.ret[2]) = Len(res.tx)
            /\ res.kind = "DepsolveError" =>
                /\ last.ret[1] = "false"
                /\ last.ret[2] # <<>>
                /\ str_join(<<".", " ">>, last.ret[2]) = res.value

\* a remove whose resolve raised DepsolveError
C10_DepsolveErrorReturned ==
    /\ last.op = "remove"
    /\ last.resolve.kind = "DepsolveError"
    /\ last.ret = <<"false", << <<"a">>, <<"b">> >> >>
    /\ Len(trace) = 4
-----------------------------------------------------------------------------
(* The serialized transaction *)

\* the groups in the order the clients are promised, with the operation type
\* of each
GroupOrder == <<"install", "update", "remove", "reinstall", "downgrade">>
GroupOp ==
    [g \in {"install", "update", "remove", "reinstall", "downgrade"} |->
        CASE g = "install" -> "INSTALL"
          [] g = "update" -> "UPGRADE"
          [] g = "remove" -> "ERASE"
          [] g = "reinstall" -> "REINSTALL"
          [] g = "downgrade" -> "DOWNGRADE"]

GroupIndex(g) == CHOOSE k \in 1..Len(GroupOrder) : GroupOrder[k] = g

\* the places <<i, p>> of the tree that hold the element of a transaction item
PlacesOf(tree, tsi) ==
    {ip \in UNION {{<<i, p>> : p \in 1..Len(tree[i][2])} : i \in 1..Len(tree)} :
        tree[ip[1]][2][ip[2]][1] = _get_id(_active_pkg(tsi))}

\* C11: the list get_transaction returns has its groups in the order install,
\* update, remove, reinstall, downgrade; a group is there iff the
\* transaction has an item of its operation type; every item of the
\* transaction is in exactly one group, the one of its type, no group has
\* anything else, and the items of a group are in transaction order; rc is
\* True iff the list is not empty.
C11_TransactionGroups ==
    last.op = "get_transaction" =>
        LET tx == IF last.transaction = None THEN <<>> ELSE The(last.transaction)
            rc == last.ret[1]
            tree == last.ret[2]
            size == [i \in 1..Len(tree) |-> Len(tree[i][2])]
        IN  /\ \A i \in 1..Len(tree) :
                   \E k \in 1..Len(GroupOrder) : tree[i][1] = GroupOrder[k]
            /\ \A i, j \in 1..Len(tree) :
                   i < j => GroupIndex(tree[i][1]) < GroupIndex(tree[j][1])
            /\ \A k \in 1..Len(GroupOrder) :
                   (\E i \in 1..Len(tree) : tree[i][1] = GroupOrder[k])
                   <=> (\E n \in 1..Len(tx) : tx[n].op_type = GroupOp[GroupOrder[k]])
            /\ \A n \in 1..Len(tx) :
                   /\ Cardinality(PlacesOf(tree, tx[n])) = 1
                   /\ \A ip \in PlacesOf(tree, tx[n]) :
                         GroupOp[tree[ip[1]][1]] = tx[n].op_type
            /\ \A i \in 1..Len(tree) : \A p \in 1..size[i] :
                   \E n \in 1..Len(tx) : <<i, p>> \in PlacesOf(tree, tx[n])
            /\ \A n, m \in 1..Len(tx) :
                   (n < m /\ tx[n].op_type = tx[m].op_type) =>
                       \A ip \in PlacesOf(tree, tx[n]) :
                       \A jq \in PlacesOf(tree, tx[m]) : ip[2] < jq[2]
            /\ (rc = "true") <=> (tree # <<>>)

\* get_transaction has serialized a transaction that removes, installs and
\* removes again: the install group comes first and the remove group holds
\* both items in their order
C11_RemoveInstallRemove ==
    /\ last.op = "get_transaction"
    /\ last.transaction = Some(<<Tsi(1, "ERASE"), Tsi(2, "INSTALL"), Tsi(3, "ERASE")>>)
    /\ last.ret[1] = "true"
    /\ Len(last.ret[2]) = 2
    /\ last.ret[2][1][1] = "install"
    /\ last.ret[2][2][1] = "remove"
    /\ Len(last.ret[2][2][2]) = 2
    /\ last.ret[2][2][2][1][1] = <<1, "@System">>
    /\ last.ret[2][2][2][2][1] = <<3, "@System">>

-----------------------------------------------------------------------------
(* The watchdog and a running transaction *)

\* C12: a step that quits the main loop starts in a state where _can_quit is
\* True, _is_working and _watchdog_disabled are False and _watchdog_count is
\* above the timeout of the lock state; and no step quits the main loop while
\* run_transaction is between "self._can_quit = False" and
\* "self._can_quit = True", where _can_quit is False.
C12_QuitOnlyWhenAllowed ==
    /\ [](running # None => ~_can_quit)
    /\ [][(mainloop = "running" /\ mainloop' = "quit") =>
            /\ _can_quit
            /\ ~_is_working
            /\ ~_watchdog_disabled
            /\ _watchdog_count > Timeout
            /\ running = None]_vars

\* the watchdog has timed out while run_transaction was inside
\* base.do_transaction, and the main loop still runs
C12_TimeoutInsideTransaction ==
    /\ running # None
    /\ ~_is_working
    /\ ~_watchdog_disabled
    /\ _watchdog_count > Timeout
    /\ ~watchdog_on
    /\ mainloop = "running"

====
